---- MODULE Spec2Model ----
(***************************************************************************)
(* Message-history tracker: the three relations of database.py (users,    *)
(* messages, message_versions), the ledger operations save_message,        *)
(* update_message and mark_message_as_deleted run inside session_scope,    *)
(* and the hashtag search of bot.py.                                       *)
(*                                                                         *)
(* Spec      one event at a time, each handler run to completion (the      *)
(*           Application of bot.py main() handles updates sequentially).   *)
(* SpecConc  the same operations as units of work of two workers whose     *)
(*           queries and commits interleave on the shared database.        *)
(***************************************************************************)
EXTENDS Integers, Sequences, FiniteSets, TLC

VARIABLES users, messages, versions, last, editLog, origText, upserted, proc

vars == <<users, messages, versions, last, editLog, origText, upserted, proc>>

\* users, messages, versions: the committed rows of the three tables.
\* last: what the handler of the last event logged and replied (Spec).
\* proc: the unit of work of each worker (SpecConc).
\* editLog, origText, upserted: history of the calls that succeeded - the
\* edits committed, the text each message was created with, the identifiers
\* whose upsert committed.

-----------------------------------------------------------------------------
(* Bounds and input domains *)

\* Rows of message_versions the model lets the table grow to.
MaxVersions == 2

ChatIds == {1, 2}

UserIds == {1, 2}

MsgIds == {1, 2}

EditDates == {1, 2}

NamesAB == [full_name |-> "A B", first_name |-> "A", last_name |-> "B"]

NamesC == [full_name |-> "C", first_name |-> "C", last_name |-> ""]

\* The telegram User of an update. A falsy username (None or "") is "".
UserSnap(id, username, names, is_bot) ==
    [id |-> id, username |-> username, names |-> names, is_bot |-> is_bot]

Ann == UserSnap(1, "ann", NamesAB, FALSE)

Bob == UserSnap(1, "bob", NamesC, FALSE)

Anon1 == UserSnap(1, "", NamesC, FALSE)

Anon2 == UserSnap(2, "", NamesC, FALSE)

Bot == UserSnap(2, "bot", NamesAB, TRUE)

NoUser == UserSnap(0, "", NamesC, FALSE)

\* Texts are sequences of characters; "_" and "%" are ordinary characters of
\* a message and wildcards of an SQL LIKE pattern.
TagAB == <<"#", "a", "b">>

TagA_ == <<"#", "a", "_">>

Texts == {TagAB, TagA_}

\* update.message.text is None
NoText == <<>>

\* context.args[0] of /search_hashtag; <<>> stands for no argument.
HashtagArgs == {TagA_, TagAB, <<"#", "c">>, <<"b">>, <<>>}

MemberStatuses == {"creator", "administrator", "member", "lookup_failed"}

NewMessageEvent(chat, user, text, mid) ==
    [chat |-> chat, user |-> user, text |-> text, mid |-> mid]

EditedMessageEvent(chat, uid, is_bot, mid, text, at) ==
    [chat |-> chat, uid |-> uid, is_bot |-> is_bot, mid |-> mid, text |-> text,
     at |-> at]

DeletedMessageEvent(chat, uid, mid) == [chat |-> chat, uid |-> uid, mid |-> mid]

SearchEvents ==
    [chat : ChatIds, status : MemberStatuses, arg : HashtagArgs, storeFails : BOOLEAN]

-----------------------------------------------------------------------------
(* Rows of the three relations *)

\* The row's own key stored where the telegram id belongs.
UserRowPk(id, user) ==
    [id |-> id, user_id |-> id, username |-> user.username,
     full_name |-> user.names.full_name, first_name |-> user.names.first_name,
     last_name |-> user.names.last_name]

UserRow(id, user) ==
    [id |-> id, user_id |-> user.id, username |-> user.username,
     full_name |-> user.names.full_name, first_name |-> user.names.first_name,
     last_name |-> user.names.last_name]

MessageRow(message_id, chat_id, user_id, text) ==
    [id |-> message_id, chat_id |-> chat_id, user_id |-> user_id, text |-> text,
     is_deleted |-> FALSE, is_edited |-> FALSE]

MessageVersionRow(message_id, text, edited_at) ==
    [message_id |-> message_id, text |-> text, edited_at |-> edited_at]

\* The result of .first() on an empty result set.
None == [id |-> 0]

First(rows) == IF rows = {} THEN {None} ELSE rows

-----------------------------------------------------------------------------
(* database.py: queries and writes of one session *)

\* session.query(User).filter_by(user_id=user_id)
QueryUser(us, user_id) == {u \in us : u.user_id = user_id}

\* users.id is an autoincrement primary key; rows are never deleted.
NextUserPk(us) == Cardinality(us) + 1

\* A username that is only filled in while none is stored.
GetOrCreateUserKeepsUsername(us, existing_user, user) ==
    IF existing_user.id = 0
    THEN IF QueryUser(us, user.id) # {}
         THEN [ok |-> FALSE, users |-> us]
         ELSE [ok |-> TRUE, users |-> us \cup {UserRow(NextUserPk(us), user)}]
    ELSE IF user.username # "" /\ existing_user.username = ""
         THEN [ok |-> TRUE,
               users |-> {IF u.id = existing_user.id
                          THEN [u EXCEPT !.username = user.username]
                          ELSE u : u \in us}]
         ELSE [ok |-> TRUE, users |-> us]

\* Every field of the stored row brought up to date with the update's user.
GetOrCreateUserSyncsNames(us, existing_user, user) ==
    IF existing_user.id = 0
    THEN IF QueryUser(us, user.id) # {}
         THEN [ok |-> FALSE, users |-> us]
         ELSE [ok |-> TRUE, users |-> us \cup {UserRow(NextUserPk(us), user)}]
    ELSE [ok |-> TRUE,
          users |-> {IF u.id = existing_user.id
                     THEN [UserRow(u.id, user) EXCEPT
                             !.username = IF user.username # "" THEN user.username
                                          ELSE u.username]
                     ELSE u : u \in us}]

\* The writes and the session.commit() of get_or_create_user, given the row
\* its query returned. An INSERT of a user_id that is already stored violates
\* unique=True and the commit raises.
GetOrCreateUser(us, existing_user, user) ==
    IF existing_user.id = 0
    THEN IF QueryUser(us, user.id) # {}
         THEN [ok |-> FALSE, users |-> us]
         ELSE [ok |-> TRUE, users |-> us \cup {UserRow(NextUserPk(us), user)}]
    ELSE IF user.username # "" /\ existing_user.username # user.username
         THEN [ok |-> TRUE,
               users |-> {IF u.id = existing_user.id
                          THEN [u EXCEPT !.username = user.username]
                          ELSE u : u \in us}]
         ELSE [ok |-> TRUE, users |-> us]

\* session.merge(message): a stored row with the same id is overwritten.
InsertMessageMerge(ms, message) ==
    [ok |-> TRUE, messages |-> {m \in ms : m.id # message.id} \cup {message}]

\* session.add(message) flushed by the commit of session_scope: messages.id
\* alone is the primary key, so a stored id makes the INSERT fail whatever
\* the chat.
InsertMessage(ms, message) ==
    IF \E m \in ms : m.id = message.id
    THEN [ok |-> FALSE, messages |-> ms]
    ELSE [ok |-> TRUE, messages |-> ms \cup {message}]

\* The lookup without the author.
QueryMessageAnyAuthor(ms, chat_id, user_id, message_id) ==
    {m \in ms : m.chat_id = chat_id /\ m.id = message_id}

\* session.query(Message).filter_by(chat_id, user_id, id) of update_message
QueryMessage(ms, chat_id, user_id, message_id) ==
    {m \in ms : m.chat_id = chat_id /\ m.user_id = user_id /\ m.id = message_id}

\* session.query(Message).filter_by(chat_id, user_id) of
\* mark_message_as_deleted: no message id, no ORDER BY.
QueryByAuthor(ms, chat_id, user_id) ==
    {m \in ms : m.chat_id = chat_id /\ m.user_id = user_id}

\* The flag set on every message of the author in the chat.
SetEditedByAuthor(ms, message) ==
    {IF m.chat_id = message.chat_id /\ m.user_id = message.user_id
     THEN [m EXCEPT !.is_edited = TRUE] ELSE m : m \in ms}

\* message.is_edited = True, flushed as an UPDATE of that row.
SetEdited(ms, message) ==
    {IF m.id = message.id THEN [m EXCEPT !.is_edited = TRUE] ELSE m : m \in ms}

\* An edit whose edited_at is older than a stored version of the message is
\* dropped.
AddVersionMonotonic(vs, message, new_text, edited_at) ==
    IF \E i \in DOMAIN vs : vs[i].message_id = message.id /\ vs[i].edited_at > edited_at
    THEN vs
    ELSE Append(vs, MessageVersionRow(message.id, new_text, edited_at))

\* Only the latest version of a message is kept.
AddVersionReplace(vs, message, new_text, edited_at) ==
    Append(SelectSeq(vs, LAMBDA v : v.message_id # message.id),
           MessageVersionRow(message.id, new_text, edited_at))

\* session.add(MessageVersion(...)), flushed as an INSERT.
AddVersion(vs, message, new_text, edited_at) ==
    Append(vs, MessageVersionRow(message.id, new_text, edited_at))

\* The flag flipped instead of set.
SetDeletedToggle(ms, message) ==
    {IF m.id = message.id THEN [m EXCEPT !.is_deleted = ~m.is_deleted] ELSE m : m \in ms}

\* message.is_deleted = True, flushed as an UPDATE of that row.
SetDeleted(ms, message) ==
    {IF m.id = message.id THEN [m EXCEPT !.is_deleted = TRUE] ELSE m : m \in ms}

-----------------------------------------------------------------------------
(* bot.py: the hashtag search *)

\* text LIKE pattern, as the database evaluates it: "%" matches any run of
\* characters, "_" any one character, anything else itself.
RECURSIVE Like(_, _)
Like(text, pattern) ==
    IF pattern = <<>> THEN text = <<>>
    ELSE IF Head(pattern) = "%"
         THEN Like(text, Tail(pattern))
              \/ (text # <<>> /\ Like(Tail(text), pattern))
         ELSE /\ text # <<>>
              /\ (Head(pattern) = "_" \/ Head(pattern) = Head(text))
              /\ Like(Tail(text), Tail(pattern))

\* Message.text.like(f"%{hashtag}%")
LikeHashtag(text, hashtag) == Like(text, <<"%">> \o hashtag \o <<"%">>)

\* The author given by the identifier alone.
AuthorById(us, user_id) ==
    LET user == CHOOSE u \in QueryUser(us, user_id) : TRUE
    IN  [username |-> "", user_id |-> user.user_id]

\* msg.user.username or msg.user.user_id
Author(us, user_id) ==
    LET user == CHOOSE u \in QueryUser(us, user_id) : TRUE
    IN  IF user.username # ""
        THEN [username |-> user.username, user_id |-> 0]
        ELSE [username |-> "", user_id |-> user.user_id]

Entry(us, text, user_id) == [text |-> text, author |-> Author(us, user_id)]

\* The rows of a query without ORDER BY, taken in primary-key order.
RECURSIVE InPkOrder(_)
InPkOrder(rows) ==
    IF rows = {} THEN <<>>
    ELSE LET r == CHOOSE x \in rows : \A y \in rows : x.id <= y.id
         IN  <<r>> \o InPkOrder(rows \ {r})

RECURSIVE MessageEntries(_, _)
MessageEntries(us, msgs) ==
    IF msgs = <<>> THEN <<>>
    ELSE <<Entry(us, Head(msgs).text, Head(msgs).user_id)>>
         \o MessageEntries(us, Tail(msgs))

\* The versions of messages of chat_id whose text matches, in table order.
RECURSIVE VersionEntries(_, _, _, _, _)
VersionEntries(us, ms, vs, chat_id, hashtag) ==
    IF vs = <<>> THEN <<>>
    ELSE LET v == Head(vs)
             owner == {m \in ms : m.id = v.message_id /\ m.chat_id = chat_id}
             rest == VersionEntries(us, ms, Tail(vs), chat_id, hashtag)
         IN  IF owner # {} /\ LikeHashtag(v.text, hashtag)
             THEN <<Entry(us, v.text, (CHOOSE m \in owner : TRUE).user_id)>> \o rest
             ELSE rest

\* A search that leaves out the messages marked as deleted, and their versions.
FindMessagesNotDeleted(us, ms, vs, chat_id, hashtag, storeFails) ==
    IF storeFails THEN <<>>
    ELSE LET live == {m \in ms : ~m.is_deleted}
         IN  MessageEntries(us, InPkOrder({m \in live : m.chat_id = chat_id
                                                        /\ LikeHashtag(m.text, hashtag)}))
             \o VersionEntries(us, live, vs, chat_id, hashtag)

\* find_messages_by_hashtag: any exception inside the session, a failing
\* store included, is logged and answered with the empty list.
FindMessagesByHashtag(us, ms, vs, chat_id, hashtag, storeFails) ==
    IF storeFails THEN <<>>
    ELSE MessageEntries(us, InPkOrder({m \in ms : m.chat_id = chat_id
                                                  /\ LikeHashtag(m.text, hashtag)}))
         \o VersionEntries(us, ms, vs, chat_id, hashtag)

\* A failed lookup taken for an administrator.
IsUserAdminFailOpen(status) == status \in {"creator", "administrator", "lookup_failed"}

\* is_user_admin: False when get_chat_member raises.
IsUserAdmin(status) == status \in {"creator", "administrator"}

\* not hashtag or not hashtag.startswith("#")
BadHashtag(arg) == arg = <<>> \/ Head(arg) # "#"

-----------------------------------------------------------------------------
(* The handlers, one event handled to completion *)

\* What the handler logged or replied; error names the row of a failed INSERT.
Last(op, outcome, error, results) ==
    [op |-> op, outcome |-> outcome, error |-> error, results |-> results]

NoError == <<>>

Idle ==
    [pc |-> "idle", op |-> "none", result |-> "none", chat |-> 0, uid |-> 0,
     mid |-> 0, text |-> NoText, at |-> 0, user |-> NoUser, row |-> None,
     raced |-> FALSE]

Procs == {1, 2}

Init ==
    /\ users = {}
    /\ messages = {}
    /\ versions = <<>>
    /\ last = Last("none", "none", NoError, <<>>)
    /\ editLog = <<>>
    /\ origText = [m \in MsgIds |-> NoText]
    /\ upserted = {}
    /\ proc = [p \in Procs |-> Idle]

\* Only the sender is looked at.
SkipsBotsOnly(e) == e.user.is_bot

\* The early returns of handle_new_message: a bot as sender, no text.
SkipsNewMessage(e) == e.user.is_bot \/ e.text = NoText

HandleNewMessage(e) ==
    /\ UNCHANGED <<versions, editLog, proc>>
    /\ IF SkipsNewMessage(e)
       THEN /\ last' = Last("new", "skipped", NoError, <<>>)
            /\ UNCHANGED <<users, messages, origText, upserted>>
       ELSE \E existing_user \in First(QueryUser(users, e.user.id)) :
              LET u == GetOrCreateUser(users, existing_user, e.user)
                  m == IF u.ok
                       THEN InsertMessage(messages,
                                MessageRow(e.mid, e.chat, e.user.id, e.text))
                       ELSE [ok |-> FALSE, messages |-> messages]
              IN  /\ users' = u.users
                  /\ messages' = m.messages
                  /\ upserted' = IF u.ok THEN upserted \cup {e.user.id} ELSE upserted
                  /\ origText' = IF m.ok THEN [origText EXCEPT ![e.mid] = e.text]
                                 ELSE origText
                  /\ last' = IF m.ok THEN Last("new", "saved", NoError, <<>>)
                             ELSE IF u.ok
                             THEN Last("new", "error", <<"messages", e.mid, e.chat>>, <<>>)
                             ELSE Last("new", "error", <<"users", e.user.id>>, <<>>)

HandleEditedMessage(e) ==
    /\ UNCHANGED <<users, origText, upserted, proc>>
    /\ IF e.is_bot
       THEN /\ last' = Last("edit", "skipped", NoError, <<>>)
            /\ UNCHANGED <<messages, versions, editLog>>
       ELSE \E message \in First(QueryMessage(messages, e.chat, e.uid, e.mid)) :
              IF message.id = 0
              THEN /\ last' = Last("edit", "untracked", NoError, <<>>)
                   /\ UNCHANGED <<messages, versions, editLog>>
              ELSE /\ Len(versions) < MaxVersions
                   /\ messages' = SetEdited(messages, message)
                   /\ versions' = AddVersion(versions, message, e.text, e.at)
                   /\ editLog' = Append(editLog, MessageVersionRow(e.mid, e.text, e.at))
                   /\ last' = Last("edit", "edited", NoError, <<>>)

\* mark_message_as_deleted in a session_scope; the message id of the event
\* is not a parameter of the function.
MarkDeleted(e) ==
    /\ UNCHANGED <<users, versions, editLog, origText, upserted, proc>>
    /\ \E message \in First(QueryByAuthor(messages, e.chat, e.uid)) :
         IF message.id = 0
         THEN /\ last' = Last("delete", "untracked", NoError, <<>>)
              /\ UNCHANGED messages
         ELSE /\ messages' = SetDeleted(messages, message)
              /\ last' = Last("delete", "deleted", NoError, <<>>)

SearchHashtag(e) ==
    /\ UNCHANGED <<users, messages, versions, editLog, origText, upserted, proc>>
    /\ IF ~IsUserAdmin(e.status)
       THEN last' = Last("search", "admin_only", NoError, <<>>)
       ELSE IF BadHashtag(e.arg)
       THEN last' = Last("search", "usage", NoError, <<>>)
       ELSE LET results == FindMessagesByHashtag(users, messages, versions,
                                                 e.chat, e.arg, e.storeFails)
            IN  last' = Last("search",
                             IF results # <<>> THEN "results" ELSE "not_found",
                             NoError, results)

-----------------------------------------------------------------------------
(* Spec: the ledger, events handled one at a time *)

\* (chat, message id) of the events: two messages in chat 1, and the id of
\* the first one again in chat 2.
MessageKeys == {<<1, 1>>, <<1, 2>>, <<2, 1>>}

\* Events the handlers skip are skipped before chat, id and text are read:
\* one event from a bot and one without text for each author stand for all.
NewMessageEvents ==
    {NewMessageEvent(k[1], u, t, k[2]) : k \in MessageKeys, u \in {Ann, Anon2}, t \in Texts}
    \cup {NewMessageEvent(1, Bot, TagAB, 1)}
    \cup {NewMessageEvent(1, u, NoText, 1) : u \in {Ann, Anon2}}

EditedMessageEvents ==
    {EditedMessageEvent(k[1], u, FALSE, k[2], TagA_, d) :
        k \in MessageKeys, u \in UserIds, d \in EditDates}
    \cup {EditedMessageEvent(1, 2, TRUE, 1, TagA_, 1)}

DeletedMessageEvents ==
    {DeletedMessageEvent(k[1], u, k[2]) : k \in MessageKeys, u \in UserIds}

Next ==
    \/ \E e \in NewMessageEvents : HandleNewMessage(e)
    \/ \E e \in EditedMessageEvents : HandleEditedMessage(e)
    \/ \E e \in DeletedMessageEvents : MarkDeleted(e)

Spec == Init /\ [][Next]_vars

-----------------------------------------------------------------------------
(* SpecIdentity: the identity store, every username and name snapshot *)

IdentityEvents ==
    {NewMessageEvent(1, u, TagAB, m) : u \in {Ann, Bob, Anon1, Anon2, Bot}, m \in MsgIds}

NextIdentity == \E e \in IdentityEvents : HandleNewMessage(e)

SpecIdentity == Init /\ [][NextIdentity]_vars

-----------------------------------------------------------------------------
(* SpecSearch: the hashtag search over messages and versions of two chats *)

SearchNewMessageEvents ==
    {NewMessageEvent(c, u, t, c) : c \in ChatIds, u \in {Ann, Bob, Anon2}, t \in Texts}

SearchEditedMessageEvents ==
    {EditedMessageEvent(c, u, FALSE, c, t, 1) : c \in ChatIds, u \in UserIds, t \in Texts}

NextSearch ==
    \/ \E e \in SearchNewMessageEvents : HandleNewMessage(e)
    \/ \E e \in SearchEditedMessageEvents : HandleEditedMessage(e)
    \/ \E e \in SearchEvents : SearchHashtag(e)

SpecSearch == Init /\ [][NextSearch]_vars

-----------------------------------------------------------------------------
(* SpecAudit: the search, by administrators and others, over messages that *)
(* are stored, edited and marked as deleted                                *)

AuditNewMessageEvents ==
    {NewMessageEvent(1, u, TagAB, m) : u \in {Ann, Anon2}, m \in MsgIds}

AuditEditedMessageEvents ==
    {EditedMessageEvent(1, u, FALSE, m, TagA_, 1) : u \in UserIds, m \in MsgIds}

AuditDeletedMessageEvents ==
    {DeletedMessageEvent(1, u, m) : u \in UserIds, m \in MsgIds}

AuditSearchEvents ==
    [chat : ChatIds, status : MemberStatuses, arg : {TagAB, TagA_}, storeFails : {FALSE}]

NextAudit ==
    \/ \E e \in AuditNewMessageEvents : HandleNewMessage(e)
    \/ \E e \in AuditEditedMessageEvents : HandleEditedMessage(e)
    \/ \E e \in AuditDeletedMessageEvents : MarkDeleted(e)
    \/ \E e \in AuditSearchEvents : SearchHashtag(e)

SpecAudit == Init /\ [][NextAudit]_vars

-----------------------------------------------------------------------------
(* SpecAuthor: the authors shown by the search, one message in each chat,  *)
(* its author's username changing                                          *)

AuthorNewMessageEvents ==
    {NewMessageEvent(c, u, TagAB, c) : c \in ChatIds, u \in {Ann, Bob, Anon2}}

AuthorEditedMessageEvents ==
    {EditedMessageEvent(c, u, FALSE, c, TagA_, 1) : c \in ChatIds, u \in UserIds}

AuthorSearchEvents ==
    [chat : ChatIds, status : {"administrator"}, arg : {TagAB, TagA_},
     storeFails : {FALSE}]

NextAuthor ==
    \/ \E e \in AuthorNewMessageEvents : HandleNewMessage(e)
    \/ \E e \in AuthorEditedMessageEvents : HandleEditedMessage(e)
    \/ \E e \in AuthorSearchEvents : SearchHashtag(e)

SpecAuthor == Init /\ [][NextAuthor]_vars

-----------------------------------------------------------------------------
(* SpecConc: two workers, each event a unit of work in its own session.    *)
(* A query reads the committed rows; the writes of a session reach the     *)
(* database when it flushes and commits, in one step.                      *)

ConcNewMessageEvents == {NewMessageEvent(1, Ann, TagAB, m) : m \in MsgIds}

ConcEditedMessageEvents ==
    {EditedMessageEvent(1, 1, FALSE, m, td[1], td[2]) :
        m \in MsgIds, td \in {<<TagAB, 2>>, <<TagA_, 1>>}}

Other(p) == CHOOSE q \in Procs : q # p

Finish(p, result) == [proc EXCEPT ![p].pc = "idle", ![p].result = result]

\* handle_new_message up to the query of get_or_create_user
NewMessageQuery(p, e) ==
    /\ proc[p].pc = "idle"
    /\ ~e.user.is_bot /\ e.text # NoText
    /\ \E existing_user \in First(QueryUser(users, e.user.id)) :
         proc' = [proc EXCEPT ![p] =
                    [Idle EXCEPT !.pc = "get_or_create_user", !.op = "new",
                                 !.chat = e.chat, !.uid = e.user.id, !.mid = e.mid,
                                 !.text = e.text, !.user = e.user,
                                 !.row = existing_user]]
    /\ UNCHANGED <<users, messages, versions, last, editLog, origText, upserted>>

\* The writes and the commit of get_or_create_user; when the commit raises,
\* save_message and session_scope roll back and the handler logs the error.
NewMessageUpsert(p) ==
    /\ proc[p].pc = "get_or_create_user"
    /\ LET u == GetOrCreateUser(users, proc[p].row, proc[p].user)
       IN  /\ users' = u.users
           /\ upserted' = IF u.ok THEN upserted \cup {proc[p].uid} ELSE upserted
           /\ proc' = IF u.ok THEN [proc EXCEPT ![p].pc = "save_message"]
                      ELSE Finish(p, "error")
    /\ UNCHANGED <<messages, versions, last, editLog, origText>>

\* session.add(message) and the commit of session_scope
NewMessageCommit(p) ==
    /\ proc[p].pc = "save_message"
    /\ LET m == InsertMessage(messages,
                    MessageRow(proc[p].mid, proc[p].chat, proc[p].uid, proc[p].text))
       IN  /\ messages' = m.messages
           /\ origText' = IF m.ok THEN [origText EXCEPT ![proc[p].mid] = proc[p].text]
                          ELSE origText
           /\ proc' = Finish(p, IF m.ok THEN "saved" ELSE "error")
    /\ UNCHANGED <<users, versions, last, editLog, upserted>>

\* handle_edited_message up to the query of update_message
EditedMessageQuery(p, e) ==
    /\ proc[p].pc = "idle"
    /\ ~e.is_bot
    /\ \E message \in First(QueryMessage(messages, e.chat, e.uid, e.mid)) :
         proc' = [proc EXCEPT ![p] =
                    [Idle EXCEPT !.pc = IF message.id = 0 THEN "idle" ELSE "update_message",
                                 !.result = IF message.id = 0 THEN "untracked" ELSE "none",
                                 !.op = "edit", !.chat = e.chat, !.uid = e.uid,
                                 !.mid = e.mid, !.text = e.text, !.at = e.at,
                                 !.row = message]]
    /\ UNCHANGED <<users, messages, versions, last, editLog, origText, upserted>>

\* The flush of update_message's writes and the commit of session_scope.
\* raced: the other worker read the same message before this commit and
\* commits its own edit after it.
EditedMessageCommit(p) ==
    /\ proc[p].pc = "update_message"
    /\ Len(versions) < MaxVersions
    /\ messages' = SetEdited(messages, proc[p].row)
    /\ versions' = AddVersion(versions, proc[p].row, proc[p].text, proc[p].at)
    /\ editLog' = Append(editLog,
                         MessageVersionRow(proc[p].mid, proc[p].text, proc[p].at))
    /\ proc' = [Finish(p, "edited") EXCEPT
                  ![p].raced = /\ proc[Other(p)].pc = "update_message"
                               /\ proc[Other(p)].mid = proc[p].mid]
    /\ UNCHANGED <<users, last, origText, upserted>>

\* Conflict detection of the database: the row this session read and is
\* about to UPDATE was changed by a commit since. The commit may raise;
\* session_scope rolls back and the handler logs the error.
EditedMessageConflict(p) ==
    /\ proc[p].pc = "update_message"
    /\ ~proc[p].row.is_edited
    /\ proc[p].row \notin messages
    /\ proc' = Finish(p, "error")
    /\ UNCHANGED <<users, messages, versions, last, editLog, origText, upserted>>

NextConc ==
    \/ \E p \in Procs, e \in ConcNewMessageEvents : NewMessageQuery(p, e)
    \/ \E p \in Procs : NewMessageUpsert(p)
    \/ \E p \in Procs : NewMessageCommit(p)
    \/ \E p \in Procs, e \in ConcEditedMessageEvents : EditedMessageQuery(p, e)
    \/ \E p \in Procs : EditedMessageCommit(p)
    \/ \E p \in Procs : EditedMessageConflict(p)

SpecConc == Init /\ [][NextConc]_vars

-----------------------------------------------------------------------------
(* Claims *)

Count(seq, x) == Cardinality({i \in DOMAIN seq : seq[i] = x})

Range(seq) == {seq[i] : i \in DOMAIN seq}

VersionsOf(vs, message_id) == SelectSeq(vs, LAMBDA v : v.message_id = message_id)

\* The handler got past its bot and text checks.
Handled(e) == ~e.user.is_bot /\ e.text # NoText

\* C1: a tracked message owns as many versions as there were successful
\* recordEdit calls on it, whatever their editedAt and text, and its text is
\* the text it was created with.
C1_OneVersionPerEdit ==
    \A m \in messages :
        /\ Len(VersionsOf(versions, m.id)) = Len(VersionsOf(editLog, m.id))
        /\ m.text = origText[m.id]

\* Two edits of one message, the second with an older editedAt and the same
\* text, both stored.
C1_Witness ==
    /\ last.outcome = "edited"
    /\ \E m \in messages :
         LET vs == VersionsOf(versions, m.id)
         IN  /\ Len(vs) = 2
             /\ vs[2].edited_at < vs[1].edited_at
             /\ vs[2].text = vs[1].text
             /\ m.text # vs[1].text

\* C2: recordNewMessage of a message id already stored for the same chat ends
\* in an error and leaves the messages and versions as they were.
C2_DuplicateRejected ==
    [][\/ /\ last'.outcome = "error"
          /\ messages' = messages
          /\ versions' = versions
       \/ \A e \in NewMessageEvents :
             (/\ last'.op = "new"
              /\ Handled(e)
              /\ \E m \in messages : m.id = e.mid /\ m.chat_id = e.chat)
             => ~HandleNewMessage(e)]_vars

\* A replay of a stored, already edited message was rejected.
C2_Witness ==
    /\ last.op = "new"
    /\ last.outcome = "error"
    /\ Len(last.error) = 3
    /\ \E m \in messages :
         /\ last.error = <<"messages", m.id, m.chat_id>>
         /\ m.is_edited
         /\ VersionsOf(versions, m.id) # <<>>

\* C3: an operation that ends in an error leaves users, messages and versions
\* as they were before it started.
C3_ErrorLeavesStoreUnchanged ==
    [][last'.outcome = "error"
          => (users' = users /\ messages' = messages /\ versions' = versions)]_vars

\* C4: after an upsert every identifier ever upserted has exactly one User
\* row, and a non-empty username supplied by the upsert is the stored one.
C4_OneUserPerIdentifier ==
    [][\A e \in IdentityEvents :
          (Handled(e) /\ HandleNewMessage(e))
          => (/\ \A uid \in upserted' : Cardinality(QueryUser(users', uid)) = 1
              /\ e.user.id \in upserted'
              /\ (e.user.username # ""
                    => \A u \in QueryUser(users', e.user.id) :
                          u.username = e.user.username))]_vars

\* The user created as "ann" carries the username "bob" of a later upsert,
\* in the one row of the identifier.
C4_Witness ==
    /\ 1 \in upserted
    /\ Cardinality(QueryUser(users, 1)) = 1
    /\ \E u \in QueryUser(users, 1) : u.username = "bob" /\ u.full_name = "A B"

\* C5: two workers that both took the first-insert path for the same new
\* identifier both record their message, and one User row exists.
C5_RaceTakesUpdatePath ==
    \A p \in Procs :
        LET q == Other(p)
        IN  (/\ proc[p].pc = "idle" /\ proc[q].pc = "idle"
             /\ proc[p].op = "new" /\ proc[q].op = "new"
             /\ proc[p].row.id = 0 /\ proc[q].row.id = 0
             /\ proc[p].uid = proc[q].uid
             /\ proc[p].mid # proc[q].mid)
            => (/\ proc[p].result = "saved"
                /\ proc[q].result = "saved"
                /\ Cardinality(QueryUser(users, proc[p].uid)) = 1)

\* C6: a recordNewMessage whose (chat, message id) is not stored is saved,
\* whatever was recorded for other tuples.
C6_DistinctTuplesIndependent ==
    [][\A e \in NewMessageEvents :
          (/\ Handled(e)
           /\ ~\E m \in messages : m.id = e.mid /\ m.chat_id = e.chat
           /\ HandleNewMessage(e))
          => last'.outcome = "saved"]_vars

\* C7: whatever the interleaving of the workers, the versions are exactly the
\* successful edits (none lost, none twice), every worker that finished an
\* edit finds its own text and date among the versions of its message, and
\* an edited message has is_edited set.
C7_ConcurrentEditsKeepVersions ==
    /\ \A r \in Range(versions) \cup Range(editLog) :
          Count(versions, r) = Count(editLog, r)
    /\ \A r \in Range(editLog) :
          \E m \in messages : m.id = r.message_id /\ m.is_edited
    /\ \A p \in Procs :
          (proc[p].pc = "idle" /\ proc[p].result = "edited")
          => MessageVersionRow(proc[p].mid, proc[p].text, proc[p].at) \in Range(versions)

\* Both workers read the same message before either committed; both edits
\* are stored.
C7_Witness ==
    \E p \in Procs :
        LET q == Other(p)
        IN  /\ proc[p].pc = "idle" /\ proc[q].pc = "idle"
            /\ proc[p].result = "edited" /\ proc[q].result = "edited"
            /\ proc[p].raced
            /\ proc[p].mid = proc[q].mid
            /\ proc[p].text # proc[q].text
            /\ Len(VersionsOf(versions, proc[p].mid)) = 2

\* hashtag occurs in text as a run of equal characters.
Contains(text, hashtag) ==
    \E i \in 0..(Len(text) - Len(hashtag)) :
        SubSeq(text, i + 1, i + Len(hashtag)) = hashtag

\* How many messages and versions of chat_id contain hashtag literally and
\* give the entry x.
LiteralMatches(us, ms, vs, chat_id, hashtag, x) ==
    Cardinality({m \in ms : /\ m.chat_id = chat_id
                            /\ Contains(m.text, hashtag)
                            /\ Entry(us, m.text, m.user_id) = x})
    + Cardinality({i \in DOMAIN vs :
                     /\ Contains(vs[i].text, hashtag)
                     /\ \E m \in ms : /\ m.id = vs[i].message_id
                                      /\ m.chat_id = chat_id
                                      /\ Entry(us, vs[i].text, m.user_id) = x})

AllEntries(us, ms, vs) ==
    {Entry(us, m.text, m.user_id) : m \in ms}
    \cup {Entry(us, v.text, m.user_id) : v \in Range(vs), m \in ms}

\* C8: a search returns one entry for each message and each version of the
\* chat that contains the hashtag as a literal substring, and nothing else.
C8_SearchIsLiteralSubstring ==
    [][\A e \in SearchEvents :
          (/\ IsUserAdmin(e.status) /\ ~BadHashtag(e.arg) /\ ~e.storeFails
           /\ SearchHashtag(e))
          => \A x \in AllEntries(users, messages, versions) \cup Range(last'.results) :
                Count(last'.results, x)
                  = LiteralMatches(users, messages, versions, e.chat, e.arg, x)]_vars

\* C9: a search during which the store fails is answered as a failed search,
\* not as "no messages found".
C9_StoreFailureIsReported ==
    [][\A e \in SearchEvents :
          (/\ IsUserAdmin(e.status) /\ ~BadHashtag(e.arg) /\ e.storeFails
           /\ SearchHashtag(e))
          => last'.outcome = "search_failed"]_vars

\* C10: after markDeleted on a tracked message the target is deleted and a
\* second markDeleted with the same arguments changes nothing.
C10_MarkDeletedIdempotent ==
    [][\A e \in DeletedMessageEvents :
          (/\ QueryMessage(messages, e.chat, e.uid, e.mid) # {}
           /\ MarkDeleted(e))
          => (/\ \A m \in QueryMessage(messages', e.chat, e.uid, e.mid) : m.is_deleted
              /\ \A message \in QueryByAuthor(messages', e.chat, e.uid) :
                    SetDeleted(messages', message) = messages')]_vars

\* C11: markDeleted(chatId, authorId, messageId) sets is_deleted on the
\* message of that chat, author and id, and on no other message.
C11_MarkDeletedByMessageId ==
    [][\A e \in DeletedMessageEvents :
          MarkDeleted(e)
          => messages' = {IF m.chat_id = e.chat /\ m.user_id = e.uid /\ m.id = e.mid
                          THEN [m EXCEPT !.is_deleted = TRUE]
                          ELSE m : m \in messages}]_vars

\* C13: an edit of a (chat, author, message id) that is not stored changes no
\* row and ends without an error.
C13_UntrackedEditIsNoOp ==
    [][\A e \in EditedMessageEvents :
          (/\ last'.op = "edit"
           /\ ~e.is_bot
           /\ ~\E m \in messages :
                  m.chat_id = e.chat /\ m.user_id = e.uid /\ m.id = e.mid
           /\ HandleEditedMessage(e))
          => (/\ users' = users /\ messages' = messages /\ versions' = versions
              /\ last'.outcome = "untracked")]_vars

\* An edit was dropped while the chat holds a message with that id of another
\* author; the next event can still be handled.
C13_Witness ==
    /\ last.op = "edit"
    /\ last.outcome = "untracked"
    /\ \E m \in messages : m.chat_id = 1 /\ m.id = 1 /\ ~m.is_edited
    /\ Cardinality(messages) = 1
    /\ versions = <<>>

\* seq is the beginning of longer.
IsPrefix(seq, longer) ==
    Len(seq) <= Len(longer) /\ SubSeq(longer, 1, Len(seq)) = seq

\* C15: in every step each Message row stays, with its id, chat, author and
\* text, and with is_edited and is_deleted never going back to false; the
\* versions stay as they are, new ones only added after them.
C15_RowsOnlyGrow ==
    [][/\ \A m \in messages :
             \E n \in messages' :
                 /\ n.id = m.id /\ n.chat_id = m.chat_id /\ n.user_id = m.user_id
                 /\ n.text = m.text
                 /\ (m.is_edited => n.is_edited)
                 /\ (m.is_deleted => n.is_deleted)
       /\ Cardinality(messages') >= Cardinality(messages)
       /\ IsPrefix(versions, versions')]_vars

\* A message edited twice and deleted, a delete handled last.
C15_Witness ==
    /\ last.op = "delete"
    /\ \E m \in messages :
         m.is_edited /\ m.is_deleted /\ Len(VersionsOf(versions, m.id)) = 2

\* C18: every message's author is the identifier of a stored user and every
\* version belongs to a stored message.
C18_ReferentialIntegrity ==
    /\ \A m \in messages : \E u \in users : u.user_id = m.user_id
    /\ \A i \in DOMAIN versions : \E m \in messages : m.id = versions[i].message_id

\* Messages of two authors, one of them edited.
C18_Witness ==
    /\ Cardinality(users) = 2
    /\ \E m, n \in messages : m.user_id = 1 /\ n.user_id = 2
    /\ versions # <<>>

\* C20: a new or edited message sent by a bot, and a new message without
\* text, change no row.
C20_SkippedEventsChangeNothing ==
    [][/\ \A e \in NewMessageEvents :
             (/\ last'.op = "new"
              /\ (e.user.is_bot \/ e.text = NoText)
              /\ HandleNewMessage(e))
             => (users' = users /\ messages' = messages /\ versions' = versions)
       /\ \A e \in EditedMessageEvents :
             (last'.op = "edit" /\ e.is_bot /\ HandleEditedMessage(e))
             => (users' = users /\ messages' = messages /\ versions' = versions)]_vars

\* An event was skipped while user 2, whose id the bot shares, is stored
\* without a username and owns message 1 of chat 1.
C20_Witness ==
    /\ last.outcome = "skipped"
    /\ \E u \in users : u.user_id = 2 /\ u.username = ""
    /\ \E m \in messages : m.id = 1 /\ m.chat_id = 1 /\ m.user_id = 2

\* C12: marking a message as deleted changes the result of no search: for
\* every chat and hashtag the entries found after it are those found before.
C12_DeletedStaysSearchable ==
    [][\A e \in AuditDeletedMessageEvents :
          (last'.op = "delete" /\ MarkDeleted(e))
          => \A c \in ChatIds : \A h \in {a \in HashtagArgs : ~BadHashtag(a)} :
                FindMessagesByHashtag(users', messages', versions', c, h, FALSE)
                = FindMessagesByHashtag(users, messages, versions, c, h, FALSE)]_vars

\* A search that returned the original text and the version of the only
\* stored message, which is marked as deleted.
C12_Witness ==
    /\ last.op = "search"
    /\ Cardinality(messages) = 1
    /\ \A m \in messages : m.is_deleted /\ m.is_edited
    /\ Len(last.results) = 2
    /\ last.results[1].text = TagAB
    /\ last.results[2].text = TagA_

\* C14: an upsert on a stored identifier keeps the row's full_name,
\* first_name and last_name whatever the update carries, and keeps its
\* username when the update's username is empty or the stored one.
C14_UpsertChangesOnlyUsername ==
    [][\A u \in users :
          \E v \in users' :
              /\ v.id = u.id /\ v.user_id = u.user_id
              /\ v.full_name = u.full_name
              /\ v.first_name = u.first_name
              /\ v.last_name = u.last_name
              /\ \A e \in IdentityEvents :
                    (/\ e.user.id = u.user_id
                     /\ (e.user.username = "" \/ e.user.username = u.username)
                     /\ HandleNewMessage(e))
                    => v.username = u.username]_vars

\* User 1, created from an update without username and with the names "C",
\* got the username "ann" from an update with the names "A B".
C14_Witness ==
    /\ 1 \in upserted
    /\ \E u \in users :
         /\ u.user_id = 1 /\ u.username = "ann"
         /\ u.full_name = "C" /\ u.first_name = "C" /\ u.last_name = ""

\* The stored username of the message's author, the identifier without one.
OwnerName(us, message) ==
    LET owner == CHOOSE u \in us : u.user_id = message.user_id
    IN  IF owner.username = ""
        THEN [username |-> "", user_id |-> owner.user_id]
        ELSE [username |-> owner.username, user_id |-> 0]

\* C16: every entry of a search result has as author the stored username of
\* the owner of the message it was found in, or the owner's identifier when
\* no username is stored.
C16_AuthorIsCurrentUsername ==
    [][\A c \in ChatIds :
          \/ \A i \in DOMAIN last'.results :
                \E m \in messages :
                    /\ m.chat_id = c
                    /\ \/ m.text = last'.results[i].text
                       \/ \E j \in DOMAIN versions :
                             /\ versions[j].message_id = m.id
                             /\ versions[j].text = last'.results[i].text
                    /\ last'.results[i].author = OwnerName(users, m)
          \/ \A e \in AuthorSearchEvents : e.chat = c => ~SearchHashtag(e)]_vars

\* The only message was stored while its author was "ann"; the author is
\* "bob" since, and the search shows "bob".
C16_Witness ==
    /\ last.op = "search"
    /\ Cardinality(messages) = 1
    /\ \A m \in messages : m.user_id = 1
    /\ \E u \in users : u.user_id = 1 /\ u.username = "bob" /\ u.full_name = "A B"
    /\ Len(last.results) >= 1
    /\ \A i \in DOMAIN last.results : last.results[i].author.username = "bob"

\* C17: a stored message has is_edited exactly if a version of it is stored.
C17_EditedIffVersioned ==
    \A m \in messages : m.is_edited <=> VersionsOf(versions, m.id) # <<>>

\* An edit failed with a conflict: the message has the version and the flag
\* of the edit that won, the other message has neither.
C17_Witness ==
    \E p \in Procs :
        /\ proc[p].pc = "idle" /\ proc[p].op = "edit" /\ proc[p].result = "error"
        /\ \E m, n \in messages :
             /\ m.id = proc[p].mid /\ m.is_edited
             /\ Len(VersionsOf(versions, m.id)) = 1
             /\ n.id # m.id /\ ~n.is_edited

\* C19: a search by a requester whose status is not creator or administrator,
\* a failed status lookup included, is answered without results.
C19_SearchFailsClosed ==
    [][\A e \in AuditSearchEvents :
          (/\ last'.op = "search"
           /\ e.status \notin {"creator", "administrator"}
           /\ SearchHashtag(e))
          => (last'.outcome = "admin_only" /\ last'.results = <<>>)]_vars

\* A search was refused while the chat holds two messages and a version.
C19_Witness ==
    /\ last.op = "search"
    /\ last.outcome = "admin_only"
    /\ Cardinality(messages) = 2
    /\ versions # <<>>

====
